---------------------------- MODULE Spec2Model ----------------------------
(***************************************************************************)
(* State-machine model of the two TRS-80 utilities of this repository:     *)
(*                                                                         *)
(*   stripcmd   (src/stripcmd/stripcmd.c)   CMD file inspector / stripper  *)
(*   edtasmcvt  (src/edtasmcvt/edtasmcvt.c) EDTASM to text converter       *)
(*                                                                         *)
(* Each program's process_file() is a byte-at-a-time loop.  One action of  *)
(* the model is one iteration of that loop (one fgetc() and the whole      *)
(* switch body), a second action is fgetc() returning EOF.                 *)
(*                                                                         *)
(* The command-line options do not change while process_file() runs.  The  *)
(* model runs process_file() once per option setting, all runs reading the *)
(* same input byte in the same step, so that the runs of different option  *)
(* settings on one input can be compared.  Every run has its own copy of   *)
(* all the locals of process_file().                                       *)
(*                                                                         *)
(* Target assumptions (they are the ones of the platforms the tools are    *)
(* built for): int and unsigned int are 32 bits wide, EOF is -1, and the   *)
(* object representation of an int is little-endian (BYTE_ORDER below).    *)
(***************************************************************************)
EXTENDS Integers, Sequences, FiniteSets, TLC

VARIABLES
    src,    \* which family of input files is being enumerated (environment)
    inp,    \* the input bytes fgetc() has returned so far, in order
    cmd,    \* stripcmd: option setting -> locals and streams of process_file
    cmdh,   \* stripcmd: option setting -> history of that run (observation only)
    edt,    \* edtasmcvt: option setting -> locals and streams of process_file
    edth,   \* edtasmcvt: option setting -> history of that run (observation only)
    arg     \* stripcmd: the command line and what main() has made of it

vars == <<src, inp, cmd, cmdh, edt, edth, arg>>

---------------------------------------------------------------------------
(* Bounds of the model.                                                    *)

\* Longest stripcmd input file enumerated byte by byte (family "cmd").
MaxInput == 9
\* Longest edtasmcvt input file enumerated (family "edt").
MaxEdtInput == 23
\* Most text bytes of a line of an edtasmcvt input file.
MaxText == 1
\* Longest input file of the single-record family "cmdlong".
MaxLong == 262
\* Highest quietness level run (-q given that many times).
MaxQuiet == 2
\* stripcmd command lines: at most MaxOpts option characters ...
MaxOpts == 2
\* ... and at most MaxOperands operands.
MaxOperands == 3

---------------------------------------------------------------------------
(* Machine arithmetic.                                                     *)

Pow2(n) == 2 ^ n

\* Conversion to uint8_t and uint16_t.
U8(x)  == x % Pow2(8)
U16(x) == x % Pow2(16)

\* ++ and -- of an unsigned int.  TLC's integers end at 2^31 - 1, so the
\* unsigned values from 2^31 to 2^32 - 1 are all held as UIntTop: a counter
\* decremented at 0 wraps to UIntTop, and no counter gets from there back to
\* a small value within the input lengths the model enumerates.
UIntTop == (Pow2(30) - 1) + Pow2(30)
UInc(x) == IF x = UIntTop THEN UIntTop ELSE x + 1
UDec(x) == IF x = 0 THEN UIntTop ELSE x - 1

\* Bitwise OR and AND of two naturals.
RECURSIVE BitOr(_, _)
BitOr(a, b) ==
    IF a = 0 THEN b
    ELSE IF b = 0 THEN a
    ELSE (IF (a % 2 = 1) \/ (b % 2 = 1) THEN 1 ELSE 0)
         + 2 * BitOr(a \div 2, b \div 2)

RECURSIVE BitAnd(_, _)
BitAnd(a, b) ==
    IF a = 0 \/ b = 0 THEN 0
    ELSE (IF (a % 2 = 1) /\ (b % 2 = 1) THEN 1 ELSE 0)
         + 2 * BitAnd(a \div 2, b \div 2)

\* The object representation of a non-negative int: its 4 bytes in memory
\* order, lowest address first.
IntBytesLE(x) == << x % 256, (x \div 256) % 256,
                    (x \div 65536) % 256, (x \div 16777216) % 256 >>
IntBytesBE(x) == << (x \div 16777216) % 256, (x \div 65536) % 256,
                    (x \div 256) % 256, x % 256 >>

BYTE_ORDER == "little"

IntBytes(x) == IF BYTE_ORDER = "little" THEN IntBytesLE(x) ELSE IntBytesBE(x)

\* fwrite(&ch, 1, 1, f) with `int ch': one byte, the one at the lowest
\* address of ch.
FirstByteOfInt(ch) == IntBytes(ch)[1]

\* fprintf(f, "%c", x): x converted to unsigned char.
PutC(x) == U8(x)

\* Store of value v at index i of a char array whose initialised part is buf[1..Len(buf)]
\* (C index i is element i+1 here).  Stores are always made at an index
\* <= Len(buf) by the code below.
Store(buf, i, v) ==
    IF i < Len(buf) THEN [buf EXCEPT ![i + 1] = v] ELSE Append(buf, v)

\* The C string held in buf: the bytes before the first NUL.
RECURSIVE CStr(_)
CStr(buf) ==
    IF buf = <<>> \/ Head(buf) = 0 THEN <<>>
    ELSE <<Head(buf)>> \o CStr(Tail(buf))

---------------------------------------------------------------------------
(* stripcmd: src/stripcmd/stripcmd.c                                       *)

\* BLK_LEN with the wrap-around test off by one.
BLK_LEN_OffByOne(n) == IF n <= 3 THEN n + 254 ELSE n - 2

BLK_LEN(n) == IF n < 3 THEN n + 254 ELSE n - 2

FNAME_SIZE == 255
COMMENT_SIZE == 255

\* enum cmd_header
LOADBLK  == 1
XFERADDR == 2
FNAMEREC == 5
COMMREC  == 31

\* enum cmd_state
CmdStates == { "CMD_HDR", "LOADBLK_LEN", "LOADBLK_ADDRLO", "LOADBLK_ADDRHI",
               "XFER_LEN", "XFER_ADDRLO", "XFER_ADDRHI",
               "FNAMEREC_LEN", "FNAMEREC_NAME",
               "COMMREC_LEN", "COMMREC_STRING",
               "SKIP_BYTES", "EXTRA_BYTES" }

\* The option settings run: the global Quiet (number of -q given) and whether
\* the global OutputFile is non-null (an out_file operand was given).
CmdCfgs == [Quiet : 0 .. MaxQuiet, OutputFile : BOOLEAN]

\* The locals of process_file() at its entry, with the streams it writes:
\*   outfile  the bytes written to OutputFile
\*   stdout   the lines printed to standard output
\*   stderr   the lines printed to standard error
\*   pc       "loop" while in the while loop, "returned" after a return,
\*            "aborted" when the process was killed (see CmdUB)
\*   ub       whether undefined behaviour has been executed
CmdInit ==
    [ state |-> "CMD_HDR", load_addr |-> 0, xfer_addr |-> 0,
      fname |-> <<>>, fname_len |-> 0, fname_idx |-> 0,
      comment |-> <<>>, comment_len |-> 0, comment_idx |-> 0,
      chskip |-> 0, extra_bytes |-> 0,
      outfile |-> <<>>, stdout |-> <<>>, stderr |-> <<>>,
      pc |-> "loop", ret |-> 0, ub |-> FALSE ]

\* `return v' inside process_file().
CmdReturn(r, v) == [r EXCEPT !.pc = "returned", !.ret = v]

\* The copy without the test of the state: trailing bytes are copied too.
CmdCopy_Always(r, ch, cfg) ==
    IF cfg.OutputFile
    THEN [r EXCEPT !.outfile = Append(@, FirstByteOfInt(ch))]
    ELSE r

\* Lines 110-111: the byte is copied unless the state is EXTRA_BYTES.
CmdCopy(r, ch, cfg) ==
    IF r.state # "EXTRA_BYTES" /\ cfg.OutputFile
    THEN [r EXCEPT !.outfile = Append(@, FirstByteOfInt(ch))]
    ELSE r

\* CMD_HDR with the default: branch of the inner switch left out: a byte that
\* is no record type is skipped.
CmdHdr_NoDefault(r, ch) ==
    CASE ch = LOADBLK  -> [r EXCEPT !.state = "LOADBLK_LEN"]
      [] ch = XFERADDR -> [r EXCEPT !.state = "XFER_LEN"]
      [] ch = FNAMEREC -> [r EXCEPT !.state = "FNAMEREC_LEN"]
      [] ch = COMMREC  -> [r EXCEPT !.state = "COMMREC_LEN"]
      [] OTHER -> r

\* case CMD_HDR
CmdHdr(r, ch) ==
    CASE ch = LOADBLK  -> [r EXCEPT !.state = "LOADBLK_LEN"]
      [] ch = XFERADDR -> [r EXCEPT !.state = "XFER_LEN"]
      [] ch = FNAMEREC -> [r EXCEPT !.state = "FNAMEREC_LEN"]
      [] ch = COMMREC  -> [r EXCEPT !.state = "COMMREC_LEN"]
      [] OTHER ->
           CmdReturn([r EXCEPT !.stderr =
                          Append(@, <<"Unexpected header byte", ch>>)], 2)

\* case LOADBLK_LEN
LoadblkLen(r, ch) ==
    [r EXCEPT !.chskip = U16(BLK_LEN(ch)), !.state = "LOADBLK_ADDRLO"]

\* case LOADBLK_ADDRLO
LoadblkAddrLo(r, ch) ==
    [r EXCEPT !.load_addr = U16(ch), !.state = "LOADBLK_ADDRHI"]

\* case LOADBLK_ADDRHI
LoadblkAddrHi(r, ch, cfg) ==
    LET a == U16(BitOr(r.load_addr, ch * Pow2(8)))
    IN  [r EXCEPT !.load_addr = a,
                  !.stdout = IF cfg.Quiet = 0
                             THEN Append(@, <<"Load address", a, r.chskip>>)
                             ELSE @,
                  !.state = "SKIP_BYTES"]

\* case XFER_LEN
XferLen(r, ch) ==
    [r EXCEPT !.chskip = U16(ch - 2), !.state = "XFER_ADDRLO"]

\* case XFER_ADDRLO
XferAddrLo(r, ch) ==
    [r EXCEPT !.xfer_addr = U16(ch), !.state = "XFER_ADDRHI"]

\* XFER_ADDRHI with the `return 2' of the length check left out.
XferAddrHi_NoReturn(r, ch, cfg) ==
    LET a == U16(BitOr(r.xfer_addr, ch * Pow2(8)))
        p == [r EXCEPT !.xfer_addr = a,
                       !.stdout = IF cfg.Quiet = 0
                                  THEN Append(@, <<"Transfer address", a>>)
                                  ELSE @]
        q == IF p.chskip # 0
             THEN [p EXCEPT !.stderr = Append(@,
                      <<"Unexpected transfer address length", p.chskip>>)]
             ELSE p
    IN  [q EXCEPT !.extra_bytes = 0, !.state = "EXTRA_BYTES"]

\* case XFER_ADDRHI
XferAddrHi(r, ch, cfg) ==
    LET a == U16(BitOr(r.xfer_addr, ch * Pow2(8)))
        p == [r EXCEPT !.xfer_addr = a,
                       !.stdout = IF cfg.Quiet = 0
                                  THEN Append(@, <<"Transfer address", a>>)
                                  ELSE @]
    IN  IF p.chskip # 0
        THEN CmdReturn([p EXCEPT !.stderr = Append(@,
                 <<"Unexpected transfer address length", p.chskip>>)], 2)
        ELSE [p EXCEPT !.extra_bytes = 0, !.state = "EXTRA_BYTES"]

\* A store past the end of fname[] or comment[] is undefined behaviour.  Of
\* the outcomes a build can produce the model keeps two: the store hits
\* memory the loop does not use and the run goes on (outcome "continue"), or
\* the process is killed (outcome "abort").
CmdUB(r, outcome) ==
    IF outcome = "abort"
    THEN [r EXCEPT !.ub = TRUE, !.pc = "aborted"]
    ELSE [r EXCEPT !.ub = TRUE]

\* case FNAMEREC_LEN
FnamerecLen(r, ch) ==
    LET p == [r EXCEPT !.fname_len = U8(ch)]
    IN  IF p.fname_len > FNAME_SIZE
        THEN CmdReturn([p EXCEPT !.stderr = Append(@,
                 <<"Unexpected file name size", p.fname_len>>)], 2)
        ELSE [p EXCEPT !.fname_idx = 0, !.state = "FNAMEREC_NAME"]

\* case FNAMEREC_NAME
FnamerecName(r, ch, cfg, outcome) ==
    IF r.fname_idx > FNAME_SIZE
    THEN CmdUB([r EXCEPT !.fname_idx = UInc(@)], outcome)
    ELSE
      LET p == [r EXCEPT !.fname = Store(@, r.fname_idx, U8(ch)),
                         !.fname_idx = UInc(@)]
      IN  IF p.fname_idx = p.fname_len
          THEN LET t == Store(p.fname, p.fname_idx, 0)
               IN  [p EXCEPT !.fname = t,
                             !.stdout = IF cfg.Quiet = 0
                                        THEN Append(@, <<"Filename", CStr(t)>>)
                                        ELSE @,
                             !.state = "CMD_HDR"]
          ELSE p

\* case COMMREC_LEN
CommrecLen(r, ch) ==
    LET p == [r EXCEPT !.comment_len = U8(ch)]
    IN  IF p.comment_len > COMMENT_SIZE
        THEN CmdReturn([p EXCEPT !.stderr = Append(@,
                 <<"Unexpected comment size", p.comment_len>>)], 2)
        ELSE [p EXCEPT !.comment_idx = 0, !.state = "COMMREC_STRING"]

\* case COMMREC_STRING
CommrecString(r, ch, cfg, outcome) ==
    IF r.comment_idx > COMMENT_SIZE
    THEN CmdUB([r EXCEPT !.comment_idx = UInc(@)], outcome)
    ELSE
      LET p == [r EXCEPT !.comment = Store(@, r.comment_idx, U8(ch)),
                         !.comment_idx = UInc(@)]
      IN  IF p.comment_idx = p.comment_len
          THEN LET t == Store(p.comment, p.comment_idx, 0)
               IN  [p EXCEPT !.comment = t,
                             !.stdout = IF cfg.Quiet = 0
                                        THEN Append(@, <<"Comment", CStr(t)>>)
                                        ELSE @,
                             !.state = "CMD_HDR"]
          ELSE p

\* case SKIP_BYTES
SkipBytes(r) ==
    LET p == [r EXCEPT !.chskip = UDec(@)]
    IN  IF p.chskip = 0 THEN [p EXCEPT !.state = "CMD_HDR"] ELSE p

\* EXTRA_BYTES that goes back to CMD_HDR after counting the byte.
ExtraBytes_Rescan(r) ==
    [r EXCEPT !.extra_bytes = UInc(@), !.state = "CMD_HDR"]

\* case EXTRA_BYTES
ExtraBytes(r) == [r EXCEPT !.extra_bytes = UInc(@)]

\* default: of the outer switch
CmdBadState(r) ==
    CmdReturn([r EXCEPT !.stderr = Append(@, <<"Unexpected state", r.state>>)], 3)

\* One iteration of the while loop of process_file() on input byte ch.
CmdStep(r, ch, cfg, outcome) ==
    LET w == CmdCopy(r, ch, cfg)
    IN  CASE w.state = "CMD_HDR"        -> CmdHdr(w, ch)
          [] w.state = "LOADBLK_LEN"    -> LoadblkLen(w, ch)
          [] w.state = "LOADBLK_ADDRLO" -> LoadblkAddrLo(w, ch)
          [] w.state = "LOADBLK_ADDRHI" -> LoadblkAddrHi(w, ch, cfg)
          [] w.state = "XFER_LEN"       -> XferLen(w, ch)
          [] w.state = "XFER_ADDRLO"    -> XferAddrLo(w, ch)
          [] w.state = "XFER_ADDRHI"    -> XferAddrHi(w, ch, cfg)
          [] w.state = "FNAMEREC_LEN"   -> FnamerecLen(w, ch)
          [] w.state = "FNAMEREC_NAME"  -> FnamerecName(w, ch, cfg, outcome)
          [] w.state = "COMMREC_LEN"    -> CommrecLen(w, ch)
          [] w.state = "COMMREC_STRING" -> CommrecString(w, ch, cfg, outcome)
          [] w.state = "SKIP_BYTES"     -> SkipBytes(w)
          [] w.state = "EXTRA_BYTES"    -> ExtraBytes(w)
          [] OTHER                      -> CmdBadState(w)

\* The final report with the test Quiet <= 2 in place of Quiet < 2.
CmdFinish_QuietLe2(r, cfg) ==
    LET a == IF cfg.Quiet <= 2 /\ r.extra_bytes # 0
             THEN Append(r.stdout, <<"Found extraneous bytes", r.extra_bytes>>)
             ELSE r.stdout
        b == IF cfg.Quiet <= 2 THEN Append(a, <<"CMD file looks good!">>) ELSE a
    IN  CmdReturn([r EXCEPT !.stdout = b], 0)

\* fgetc() returned -1: the loop ends, the final report is printed, return 0.
CmdFinish(r, cfg) ==
    LET a == IF cfg.Quiet < 2 /\ r.extra_bytes # 0
             THEN Append(r.stdout, <<"Found extraneous bytes", r.extra_bytes>>)
             ELSE r.stdout
        b == IF cfg.Quiet < 2 THEN Append(a, <<"CMD file looks good!">>) ELSE a
    IN  CmdReturn([r EXCEPT !.stdout = b], 0)

---------------------------------------------------------------------------
(* stripcmd: the input files enumerated, and the actions.                  *)

\* The run whose state selects the next input bytes (all runs of one input
\* are in the same state: cfg does not enter any branch on `state').
CmdRef == [Quiet |-> 0, OutputFile |-> TRUE]

\* Family "cmd": files of at most MaxInput bytes.  In each state the next
\* byte is drawn from representatives of every class of bytes the code
\* tells apart in that state.
CmdShortBytes(st) ==
    CASE st = "CMD_HDR" -> {0, LOADBLK, XFERADDR, FNAMEREC, COMMREC, 32}
      [] st = "LOADBLK_LEN" -> {0, 3, 4}
      [] st = "XFER_LEN" -> {0, 1, 2, 3, 255}
      [] st \in {"FNAMEREC_LEN", "COMMREC_LEN"} -> {0, 1, 2}
      [] st \in {"LOADBLK_ADDRLO", "LOADBLK_ADDRHI",
                 "XFER_ADDRLO", "XFER_ADDRHI"} -> {18, 255}
      [] st \in {"FNAMEREC_NAME", "COMMREC_STRING", "SKIP_BYTES"} -> {0, 2, 65}
      [] st = "EXTRA_BYTES" -> {0, LOADBLK, XFERADDR, FNAMEREC, COMMREC}
      [] OTHER -> {}

\* Family "cmdlong": files of at most MaxLong bytes that start with any
\* byte 0..255; after a record type comes a record of that type with any
\* length byte 0..255 and the byte value 65 everywhere in it.  After that
\* record come nothing, an invalid record type, or a transfer-address
\* record (length byte 2) and one more byte.
CmdLongBytes(r) ==
    CASE r.state = "CMD_HDR" ->
             IF inp = <<>> THEN 0 .. 255
             ELSE {XFERADDR, 0}
      [] r.state \in {"LOADBLK_LEN", "XFER_LEN", "FNAMEREC_LEN", "COMMREC_LEN"} ->
             IF Len(inp) = 1 THEN 0 .. 255 ELSE {2}
      [] r.state = "EXTRA_BYTES" ->
             IF r.extra_bytes = 0 THEN {65} ELSE {}
      [] OTHER -> {65}

CmdInputs ==
    CASE src = "cmd" /\ Len(inp) < MaxInput -> CmdShortBytes(cmd[CmdRef].state)
      [] src = "cmdlong" /\ Len(inp) < MaxLong -> CmdLongBytes(cmd[CmdRef])
      [] OTHER -> {}

\* What is recorded of a run for the properties: the state in which each
\* input byte was dispatched (trace[i] is the value of `state' when inp[i]
\* was read).
CmdHistInit == [trace |-> <<>>]
CmdObserve(h, r) ==
    IF r.pc = "loop" THEN [h EXCEPT !.trace = Append(@, r.state)] ELSE h

\* The runs that are still in the loop.
CmdRunning == {c \in CmdCfgs : cmd[c].pc = "loop"}

\* The outcomes of the next iteration: two when it executes undefined
\* behaviour in some run (see CmdUB), one otherwise.
CmdOutcomes ==
    IF \E c \in CmdRunning :
          \/ cmd[c].state = "FNAMEREC_NAME" /\ cmd[c].fname_idx > FNAME_SIZE
          \/ cmd[c].state = "COMMREC_STRING" /\ cmd[c].comment_idx > COMMENT_SIZE
    THEN {"continue", "abort"}
    ELSE {"continue"}

\* fgetc() returns a byte: one iteration of the loop, in every run that is
\* still in the loop.
CmdRead ==
    /\ src \in {"cmd", "cmdlong"}
    /\ CmdRunning # {}
    /\ \E ch \in CmdInputs, outcome \in CmdOutcomes :
         /\ inp' = Append(inp, ch)
         /\ cmd' = [c \in CmdCfgs |->
                      IF cmd[c].pc = "loop"
                      THEN CmdStep(cmd[c], ch, c, outcome) ELSE cmd[c]]
         /\ cmdh' = [c \in CmdCfgs |-> CmdObserve(cmdh[c], cmd[c])]
    /\ UNCHANGED <<src, edt, edth, arg>>

\* fgetc() returns EOF.
CmdEof ==
    /\ src \in {"cmd", "cmdlong"}
    /\ CmdRunning # {}
    /\ cmd' = [c \in CmdCfgs |->
                 IF cmd[c].pc = "loop" THEN CmdFinish(cmd[c], c) ELSE cmd[c]]
    /\ UNCHANGED <<src, inp, cmdh, edt, edth, arg>>

InitCmd ==
    /\ src = "cmd"
    /\ inp = <<>>
    /\ cmd = [c \in CmdCfgs |-> CmdInit]
    /\ cmdh = [c \in CmdCfgs |-> CmdHistInit]
    /\ edt = <<>>
    /\ edth = <<>>
    /\ arg = <<>>

InitCmdLong ==
    /\ src = "cmdlong"
    /\ inp = <<>>
    /\ cmd = [c \in CmdCfgs |-> CmdInit]
    /\ cmdh = [c \in CmdCfgs |-> CmdHistInit]
    /\ edt = <<>>
    /\ edth = <<>>
    /\ arg = <<>>

NextCmd == CmdRead \/ CmdEof

\* stripcmd on the files of family "cmd".
SpecCmd == InitCmd /\ [][NextCmd]_vars

\* stripcmd on the files of family "cmdlong".
SpecCmdLong == InitCmdLong /\ [][NextCmd]_vars

---------------------------------------------------------------------------
(* stripcmd: process_args() and main().                                    *)

\* Characters of the command line (their codes).
NUL   == 0
MINUS == 45

\* The operands tried: "", "-", "a", "ab", "-a" (an operand that starts with
\* '-' follows the "--" that ends the options).
ArgStrings == { <<>>, <<MINUS>>, <<97>>, <<97, 98>>, <<MINUS, 97>> }

\* The option characters tried: q, and x for any character getopt() rejects.
ArgOptChars == {"q", "x"}

RECURSIVE SeqsUpTo(_, _)
SeqsUpTo(S, n) ==
    IF n = 0 THEN {<<>>}
    ELSE LET T == SeqsUpTo(S, n - 1)
         IN  T \cup {Append(t, x) : t \in {u \in T : Len(u) = n - 1}, x \in S}

\* The command lines tried, as getopt() presents them (options first, then
\* the operands from argv[optind] on), with the set of paths fopen() opens.
ArgInputs ==
    [ opts     : SeqsUpTo(ArgOptChars, MaxOpts),
      operands : SeqsUpTo(ArgStrings, MaxOperands),
      openable : SUBSET (ArgStrings \ {<<>>}) ]

\* argv[i][k] of a C string: its k-th character, the terminating NUL at
\* k = strlen, and past that whatever byte follows the string in memory.
ArgChar(str, k, beyond) ==
    IF k < Len(str) THEN str[k + 1] ELSE IF k = Len(str) THEN NUL ELSE beyond

\* The getopt() loop of process_args(): Quiet is incremented per -q; the
\* first rejected option makes process_args() return -1.
RECURSIVE ArgGetopt(_, _, _)
ArgGetopt(opts, i, quiet) ==
    IF i > Len(opts) THEN [Quiet |-> quiet, ret |-> 0]
    ELSE IF opts[i] = "q" THEN ArgGetopt(opts, i + 1, quiet + 1)
    ELSE [Quiet |-> quiet, ret |-> -1]

\* The values of a FILE pointer: stdin, the stream of an opened path, NULL,
\* and the indeterminate value of InputFile before it is assigned.
StdinStream       == [kind |-> "stdin", path |-> <<>>]
FileStream(path)  == [kind |-> "file", path |-> path]
NullStream        == [kind |-> "NULL", path |-> <<>>]
UnsetStream       == [kind |-> "unset", path |-> <<>>]

\* fopen(path, ...)
ArgFopen(a, path) == IF path \in a.openable THEN FileStream(path) ELSE NullStream

ArgFail(a, g, msg) ==
    [a EXCEPT !.Quiet = g.Quiet, !.ret = -1, !.stderr = Append(@, msg),
              !.pc = "main"]

\* process_args(): the options, the operand count, the input operand, the
\* output operand.  `beyond' is the byte read by argv[optind][1] when
\* argv[optind] is the empty string.
process_args(a, beyond) ==
    LET g == ArgGetopt(a.opts, 1, 0)
        n == Len(a.operands)
    IN  IF g.ret # 0 THEN ArgFail(a, g, "")
        ELSE IF n > 2 THEN ArgFail(a, g, "Too many operands.")
        ELSE
          LET useFile == /\ n > 0
                         /\ ArgChar(a.operands[1], 0, beyond) # MINUS
                         /\ ArgChar(a.operands[1], 1, beyond) # NUL
              ifp == IF useFile THEN ArgFopen(a, a.operands[1]) ELSE StdinStream
              ofp == IF n > 1 THEN ArgFopen(a, a.operands[2]) ELSE NullStream
          IN  IF ifp = NullStream THEN ArgFail(a, g, "Failed to open file")
              ELSE IF n > 1 /\ ofp = NullStream
              THEN [ArgFail(a, g, "Failed to open file") EXCEPT !.InputFile = ifp]
              ELSE [a EXCEPT !.Quiet = g.Quiet, !.ret = 0,
                             !.InputFile = ifp, !.OutputFile = ofp,
                             !.pc = "main"]

\* The state of main() at its entry for a command line.
ArgInit(i) ==
    [ opts |-> i.opts, operands |-> i.operands, openable |-> i.openable,
      Quiet |-> 0, InputFile |-> UnsetStream, OutputFile |-> NullStream,
      ret |-> 0, stderr |-> <<>>, exit |-> -1, pc |-> "process_args" ]

\* The bytes argv[optind][1] can turn out to be when it is read past the
\* end of an empty operand: 0 or something else.
ArgBeyond ==
    IF /\ ArgGetopt(arg.opts, 1, 0).ret = 0
       /\ Len(arg.operands) \in {1, 2}
       /\ arg.operands[1] = <<>>
    THEN {NUL, 97}
    ELSE {NUL}

\* main() calls process_args().
MainProcessArgs ==
    /\ src = "args"
    /\ arg.pc = "process_args"
    /\ \E beyond \in ArgBeyond : arg' = process_args(arg, beyond)
    /\ UNCHANGED <<src, inp, cmd, cmdh, edt, edth>>

\* process_args() returned non-zero: usage() prints the usage and exits 1.
MainUsage ==
    /\ src = "args"
    /\ arg.pc = "main"
    /\ arg.ret # 0
    /\ arg' = [arg EXCEPT !.stderr = Append(@, "Usage:"), !.exit = 1,
                          !.pc = "exited"]
    /\ UNCHANGED <<src, inp, cmd, cmdh, edt, edth>>

\* process_args() returned 0: main() calls process_file(InputFile, ...).
MainProcessFile ==
    /\ src = "args"
    /\ arg.pc = "main"
    /\ arg.ret = 0
    /\ arg' = [arg EXCEPT !.pc = "process_file"]
    /\ UNCHANGED <<src, inp, cmd, cmdh, edt, edth>>

InitArgs ==
    /\ src = "args"
    /\ inp = <<>>
    /\ cmd = <<>>
    /\ cmdh = <<>>
    /\ edt = <<>>
    /\ edth = <<>>
    /\ arg \in {ArgInit(i) : i \in ArgInputs}

NextArgs == MainProcessArgs \/ MainUsage \/ MainProcessFile

\* stripcmd from its command line to the call of process_file().
SpecArgs == InitArgs /\ [][NextArgs]_vars

---------------------------------------------------------------------------
(* edtasmcvt: src/edtasmcvt/edtasmcvt.c                                    *)

HEADERCHAR == 211
EOLCHAR    == 13
EOFCHAR    == 26
\* LINENUMCHAR with the upper end of the range excluded.
LINENUMCHAR_Strict(c) == c >= 176 /\ c < 185

LINENUMCHAR(c) == c >= 176 /\ c <= 185

\* Character constants of the C source: ' ', '\t', '\n'.
SPACE   == 32
TAB     == 9
NEWLINE == 10

\* The bytes of the string "FILENAME: ".
FILENAME_LABEL == <<70, 73, 76, 69, 78, 65, 77, 69, 58, 32>>

\* The option settings run: the arguments show_hdr (-f) and cvt_newerfmt (-c)
\* of process_file() and the global Show_Linenums (0 with -s), as the ints
\* process_args() sets.
EdtCfgs == [show_hdr : {0, 1}, cvt_newerfmt : {0, 1}, Show_Linenums : {0, 1}]

\* The locals of process_file() at its entry, with the streams it writes:
\*   outfile  the bytes written to outfile
\*   stderr   the lines printed to standard error
\*   pc       "loop" while in the while loop, "returned" after a return
EdtInit ==
    [ state |-> "ES_HDR", fnc |-> 0, lncc |-> 0, tlcc |-> 0,
      outfile |-> <<>>, stderr |-> <<>>, pc |-> "loop", ret |-> 0 ]

\* `return v' inside process_file().
EdtReturn(r, v) == [r EXCEPT !.pc = "returned", !.ret = v]

\* ES_FNAME with the counter incremented before the test (++fnc == 5): the
\* filename ends after 5 bytes.
EsFname_PreInc(r, ch, cfg) ==
    LET a == IF cfg.show_hdr # 0
             THEN (IF r.fnc = 0 THEN r.outfile \o FILENAME_LABEL ELSE r.outfile)
                  \o <<PutC(ch)>>
             ELSE r.outfile
    IN  IF r.fnc + 1 = 5
        THEN [r EXCEPT !.outfile = IF cfg.show_hdr # 0
                                   THEN a \o <<NEWLINE, NEWLINE>> ELSE a,
                       !.fnc = 0,
                       !.state = "ES_LINENUM"]
        ELSE [r EXCEPT !.outfile = a, !.fnc = @ + 1]

\* case ES_FNAME
EsFname(r, ch, cfg) ==
    LET a == IF cfg.show_hdr # 0
             THEN (IF r.fnc = 0 THEN r.outfile \o FILENAME_LABEL ELSE r.outfile)
                  \o <<PutC(ch)>>
             ELSE r.outfile
    IN  IF r.fnc = 5
        THEN [r EXCEPT !.outfile = IF cfg.show_hdr # 0
                                   THEN a \o <<NEWLINE, NEWLINE>> ELSE a,
                       !.fnc = 0,
                       !.state = "ES_LINENUM"]
        ELSE [r EXCEPT !.outfile = a, !.fnc = @ + 1]

\* ES_LINENUM printing the line-number byte without clearing its high bit.
EsLinenum_NoMask(r, ch, cfg) ==
    IF LINENUMCHAR(ch)
    THEN LET p == [r EXCEPT !.outfile = IF cfg.Show_Linenums # 0
                                        THEN Append(@, PutC(ch))
                                        ELSE @,
                            !.lncc = @ + 1]
         IN  IF p.lncc = 5
             THEN [p EXCEPT !.lncc = 0, !.state = "ES_LINETXT"]
             ELSE p
    ELSE IF ch = EOFCHAR
    THEN EdtReturn(r, 0)
    ELSE EdtReturn([r EXCEPT !.stderr = Append(@, <<"Bad line number.">>)], 2)

\* case ES_LINENUM
EsLinenum(r, ch, cfg) ==
    IF LINENUMCHAR(ch)
    THEN LET p == [r EXCEPT !.outfile = IF cfg.Show_Linenums # 0
                                        THEN Append(@, PutC(BitAnd(ch, 127)))
                                        ELSE @,
                            !.lncc = @ + 1]
         IN  IF p.lncc = 5
             THEN [p EXCEPT !.lncc = 0, !.state = "ES_LINETXT"]
             ELSE p
    ELSE IF ch = EOFCHAR
    THEN EdtReturn(r, 0)
    ELSE EdtReturn([r EXCEPT !.stderr = Append(@, <<"Bad line number.">>)], 2)

\* ES_LINETXT printing the separator whether or not line numbers are shown.
EsLinetxt_SepAlways(r, ch, cfg) ==
    LET p == [r EXCEPT !.tlcc = @ + 1]
    IN  IF r.tlcc = 0
        THEN IF ch = SPACE \/ ch = TAB
             THEN LET ch2 == IF ch = SPACE /\ cfg.cvt_newerfmt = 1
                             THEN TAB ELSE ch
                  IN  [p EXCEPT !.outfile = Append(@, PutC(ch2))]
             ELSE EdtReturn([p EXCEPT !.stderr = Append(@,
                      <<"Unexpected character following line number", ch>>)], 2)
        ELSE IF ch = EOLCHAR
        THEN [p EXCEPT !.outfile = Append(@, NEWLINE),
                       !.tlcc = 0,
                       !.state = "ES_LINENUM"]
        ELSE [p EXCEPT !.outfile = Append(@, PutC(ch))]

\* ES_LINETXT rewriting every space of the line to a tab under -c, not only
\* the separator.
EsLinetxt_CvtAllSpaces(r, ch, cfg) ==
    LET p == [r EXCEPT !.tlcc = @ + 1]
        ch2 == IF ch = SPACE /\ cfg.cvt_newerfmt = 1 THEN TAB ELSE ch
    IN  IF r.tlcc = 0
        THEN IF ch = SPACE \/ ch = TAB
             THEN IF cfg.Show_Linenums # 0
                  THEN [p EXCEPT !.outfile = Append(@, PutC(ch2))]
                  ELSE p
             ELSE EdtReturn([p EXCEPT !.stderr = Append(@,
                      <<"Unexpected character following line number", ch>>)], 2)
        ELSE IF ch = EOLCHAR
        THEN [p EXCEPT !.outfile = Append(@, NEWLINE),
                       !.tlcc = 0,
                       !.state = "ES_LINENUM"]
        ELSE [p EXCEPT !.outfile = Append(@, PutC(ch2))]

\* case ES_LINETXT
EsLinetxt(r, ch, cfg) ==
    LET p == [r EXCEPT !.tlcc = @ + 1]
    IN  IF r.tlcc = 0
        THEN IF ch = SPACE \/ ch = TAB
             THEN IF cfg.Show_Linenums # 0
                  THEN LET ch2 == IF ch = SPACE /\ cfg.cvt_newerfmt = 1
                                  THEN TAB ELSE ch
                       IN  [p EXCEPT !.outfile = Append(@, PutC(ch2))]
                  ELSE p
             ELSE EdtReturn([p EXCEPT !.stderr = Append(@,
                      <<"Unexpected character following line number", ch>>)], 2)
        ELSE IF ch = EOLCHAR
        THEN [p EXCEPT !.outfile = Append(@, NEWLINE),
                       !.tlcc = 0,
                       !.state = "ES_LINENUM"]
        ELSE [p EXCEPT !.outfile = Append(@, PutC(ch))]

\* default: of the switch
EdtBadState(r, ch) ==
    EdtReturn([r EXCEPT !.stderr = Append(@, <<"Bad state", r.state, ch>>)], 3)

\* The switch (state) of the loop body.
EdtSwitch(r, ch, cfg) ==
    CASE r.state = "ES_FNAME"   -> EsFname(r, ch, cfg)
      [] r.state = "ES_LINENUM" -> EsLinenum(r, ch, cfg)
      [] r.state = "ES_LINETXT" -> EsLinetxt(r, ch, cfg)
      [] OTHER                  -> EdtBadState(r, ch)

\* The loop body without the assignment state = ES_LINENUM for a first byte
\* that is a line-number digit.
EdtStep_HdrKept(r, ch, cfg) ==
    IF r.state = "ES_HDR"
    THEN IF ch = HEADERCHAR
         THEN [r EXCEPT !.state = "ES_FNAME"]
         ELSE IF LINENUMCHAR(ch)
         THEN EdtSwitch(r, ch, cfg)
         ELSE EdtReturn([r EXCEPT !.stderr =
                             Append(@, <<"Unexpected file format.">>)], 2)
    ELSE EdtSwitch(r, ch, cfg)

\* One iteration of the while loop of process_file() on input byte ch: the
\* ES_HDR test of the first byte, then the switch.
EdtStep(r, ch, cfg) ==
    IF r.state = "ES_HDR"
    THEN IF ch = HEADERCHAR
         THEN [r EXCEPT !.state = "ES_FNAME"]
         ELSE IF LINENUMCHAR(ch)
         THEN EdtSwitch([r EXCEPT !.state = "ES_LINENUM"], ch, cfg)
         ELSE EdtReturn([r EXCEPT !.stderr =
                             Append(@, <<"Unexpected file format.">>)], 2)
    ELSE EdtSwitch(r, ch, cfg)

\* The end of input with a newline written for an unterminated line.
EdtFinish_EndsLine(r) ==
    EdtReturn(IF r.state = "ES_LINETXT"
              THEN [r EXCEPT !.outfile = Append(@, NEWLINE)] ELSE r, 0)

\* fgetc() returned -1: the loop ends, return 0.
EdtFinish(r) == EdtReturn(r, 0)

---------------------------------------------------------------------------
(* edtasmcvt: the input files enumerated, and the actions.                 *)

\* The run whose state selects the next input bytes (all runs of one input
\* are in the same state: cfg does not enter any branch on `state').
EdtRef == [show_hdr |-> 0, cvt_newerfmt |-> 0, Show_Linenums |-> 1]

\* Family "edt": files of at most MaxEdtInput bytes whose lines hold at most
\* MaxText text bytes after the separator.  In each state the next byte is
\* drawn from representatives of every class of bytes the code tells apart
\* in that state, with the values next to the ends of the line-number
\* range.  The last byte of a filename (a letter or a padding space) and
\* the first byte of a line number take two values, the other bytes of
\* them one; the first text byte of a line takes three values, the later
\* ones one.
EdtBytes(r) ==
    CASE r.state = "ES_HDR" ->
             {HEADERCHAR, 176, 185, EOFCHAR, 175, 186, SPACE}
      [] r.state = "ES_FNAME" ->
             IF r.fnc = 5 THEN {SPACE, 65} ELSE {65}
      [] r.state = "ES_LINENUM" ->
             (IF r.lncc = 0 THEN {176, 185} ELSE {181})
             \cup {EOFCHAR, 175, 186, 48}
      [] r.state = "ES_LINETXT" /\ r.tlcc = 0 ->
             {SPACE, TAB, EOLCHAR, EOFCHAR, 176}
      [] r.state = "ES_LINETXT" /\ r.tlcc # 0 ->
             (IF r.tlcc = 1 /\ MaxText >= 1 THEN {SPACE, EOFCHAR, 65}
              ELSE IF r.tlcc <= MaxText THEN {65}
              ELSE {})
             \cup {EOLCHAR}
      [] OTHER -> {}

EdtInputs ==
    IF src = "edt" /\ Len(inp) < MaxEdtInput THEN EdtBytes(edt[EdtRef]) ELSE {}

\* What is recorded of a run for the properties: for each input byte, the
\* state in which it was read (the value of `state' at the top of the loop
\* body) and the number of bytes written to outfile before it was read.
EdtHistInit == [trace |-> <<>>, outpos |-> <<>>]
EdtObserve(h, r) ==
    IF r.pc = "loop"
    THEN [h EXCEPT !.trace = Append(@, r.state),
                   !.outpos = Append(@, Len(r.outfile))]
    ELSE h

\* The runs that are still in the loop.
EdtRunning == {c \in EdtCfgs : edt[c].pc = "loop"}

\* fgetc() returns a byte: one iteration of the loop, in every run that is
\* still in the loop.
EdtRead ==
    /\ src = "edt"
    /\ EdtRunning # {}
    /\ \E ch \in EdtInputs :
         /\ inp' = Append(inp, ch)
         /\ edt' = [c \in EdtCfgs |->
                      IF edt[c].pc = "loop"
                      THEN EdtStep(edt[c], ch, c) ELSE edt[c]]
         /\ edth' = [c \in EdtCfgs |-> EdtObserve(edth[c], edt[c])]
    /\ UNCHANGED <<src, cmd, cmdh, arg>>

\* fgetc() returns EOF.
EdtEof ==
    /\ src = "edt"
    /\ EdtRunning # {}
    /\ edt' = [c \in EdtCfgs |->
                 IF edt[c].pc = "loop" THEN EdtFinish(edt[c]) ELSE edt[c]]
    /\ UNCHANGED <<src, inp, edth, cmd, cmdh, arg>>

InitEdt ==
    /\ src = "edt"
    /\ inp = <<>>
    /\ edt = [c \in EdtCfgs |-> EdtInit]
    /\ edth = [c \in EdtCfgs |-> EdtHistInit]
    /\ cmd = <<>>
    /\ cmdh = <<>>
    /\ arg = <<>>

NextEdt == EdtRead \/ EdtEof

\* edtasmcvt on the files of family "edt".
SpecEdt == InitEdt /\ [][NextEdt]_vars

---------------------------------------------------------------------------
(* Both programs: one of them is run, on one family of input files.        *)

Init == InitCmd \/ InitCmdLong \/ InitEdt \/ InitArgs

Next == NextCmd \/ NextEdt \/ NextArgs

Spec == Init /\ [][Next]_vars

\* process_file() of either program, on the files of families "cmd" and
\* "edt".
InitProcessFile == InitCmd \/ InitEdt

NextProcessFile == NextCmd \/ NextEdt

SpecProcessFile == InitProcessFile /\ [][NextProcessFile]_vars

---------------------------------------------------------------------------
(* Properties of stripcmd.                                                 *)

Min(a, b) == IF a < b THEN a ELSE b

\* The last element of a sequence, <<>> for the empty sequence.
Last(q) == IF q = <<>> THEN <<>> ELSE q[Len(q)]

\* The CMD format of the specification, read off the input alone: the
\* payload length a load block's length byte n stands for.
FormatBlkLen(n) == IF n < 3 THEN n + 254 ELSE n - 2

\* The CMD format of the specification, read off the input alone: the index
\* in s of the second address byte of the first transfer-address record
\* with length byte 2 that is reached from index i through complete load
\* blocks, filename records and comment records; 0 if there is none.
RECURSIVE FormatXferEnd(_, _)
FormatXferEnd(s, i) ==
    IF i + 1 > Len(s) THEN 0
    ELSE CASE s[i] = 2 -> IF s[i + 1] = 2 /\ i + 3 <= Len(s) THEN i + 3 ELSE 0
           [] s[i] = 1 -> FormatXferEnd(s, i + 4 + FormatBlkLen(s[i + 1]))
           [] s[i] \in {5, 31} -> FormatXferEnd(s, i + 2 + s[i + 1])
           [] OTHER -> 0

\* C1: with an output file, for every input that contains a complete
\* transfer-address record with length byte 2 preceded only by well-formed
\* records, the bytes written are exactly the input bytes up to and
\* including the second address byte of that record, and no later byte is
\* ever written.
C1_CopyEndsAtTransferRecord ==
    \A c \in CmdCfgs :
        c.OutputFile =>
            LET e == FormatXferEnd(inp, 1)
            IN  e # 0 /\ Len(cmdh[c].trace) >= e =>
                    cmd[c].outfile = SubSeq(inp, 1, e)

\* C3: for every length byte n in 0..255 read in FNAMEREC_LEN (COMMREC_LEN),
\* exactly the next n input bytes are consumed in FNAMEREC_NAME
\* (COMMREC_STRING) and the state is CMD_HDR immediately after the n-th of
\* them, so that the byte after them is read as a record-type byte.
C3_NameConsumesExactlyN ==
    \A c \in CmdCfgs :
        LET t == cmdh[c].trace
        IN  \A p \in 1 .. Len(t) :
                t[p] \in {"FNAMEREC_LEN", "COMMREC_LEN"} =>
                    LET n == inp[p]
                        body == IF t[p] = "FNAMEREC_LEN"
                                THEN "FNAMEREC_NAME" ELSE "COMMREC_STRING"
                    IN  /\ \A q \in p + 1 .. Min(p + n, Len(t)) : t[q] = body
                        /\ Len(t) = p + n => cmd[c].state = "CMD_HDR"
                        /\ Len(t) > p + n => t[p + n + 1] = "CMD_HDR"

\* C4: for every length byte n in 0..255 read in LOADBLK_LEN the decoded
\* payload length is n+254 when n < 3 and n-2 otherwise (0, 1, 2, 3, 255
\* give 254, 255, 256, 1, 253) and is never 0; after the two address bytes
\* exactly that many input bytes are consumed in SKIP_BYTES, and the state
\* is CMD_HDR immediately after the last of them.
C4_LoadBlockLength ==
    \A c \in CmdCfgs :
        LET t == cmdh[c].trace
        IN  \A p \in 1 .. Len(t) :
                t[p] = "LOADBLK_LEN" =>
                    LET n == inp[p]
                        len == IF n < 3 THEN n + 254 ELSE n - 2
                        k == Len(t) - p
                    IN  /\ len # 0
                        /\ n = 0 => len = 254
                        /\ n = 1 => len = 255
                        /\ n = 2 => len = 256
                        /\ n = 3 => len = 1
                        /\ n = 255 => len = 253
                        /\ k = 0 => /\ cmd[c].state = "LOADBLK_ADDRLO"
                                    /\ cmd[c].chskip = len
                        /\ k >= 1 => t[p + 1] = "LOADBLK_ADDRLO"
                        /\ k >= 2 => t[p + 2] = "LOADBLK_ADDRHI"
                        /\ \A q \in p + 3 .. Min(p + 2 + len, Len(t)) :
                               t[q] = "SKIP_BYTES"
                        /\ k >= 2 /\ k < 2 + len =>
                               /\ cmd[c].state = "SKIP_BYTES"
                               /\ cmd[c].chskip = len - (k - 2)
                        /\ k = 2 + len => cmd[c].state = "CMD_HDR"
                        /\ k > 2 + len => t[p + 3 + len] = "CMD_HDR"

\* C4 witness: load blocks with length bytes 0 and 2 (254 and 256 payload
\* bytes) have been consumed to their last byte and the byte after them
\* was read as a record type.
C4_Witness ==
    /\ Len(inp) = 261
    /\ inp[1] = LOADBLK
    /\ inp[2] = 2
    /\ \A c \in CmdCfgs :
          /\ cmdh[c].trace[260] = "SKIP_BYTES"
          /\ cmdh[c].trace[261] = "CMD_HDR"
          /\ cmd[c].state = "XFER_LEN"

\* C5 as claimed: every input in which a transfer-address record has a
\* length byte different from 2 makes process_file return 2; it never ends
\* with status 0.
C5_BadXferLengthAlwaysReturns2 ==
    \A c \in CmdCfgs :
        LET t == cmdh[c].trace
        IN  \A p \in 1 .. Len(t) :
                t[p] = "XFER_LEN" /\ inp[p] # 2 /\ cmd[c].pc = "returned" =>
                    cmd[c].ret = 2

\* C5 as amended: an input in which a transfer-address record has a length
\* byte n different from 2 makes process_file return 2 ("Unexpected
\* transfer address length") when the second address byte of that record
\* is read; if the input ends before that byte, process_file returns 0.
\* Such an input never reaches the EXTRA_BYTES state.
C5_BadXferLengthReturns2AtAddrHi ==
    \A c \in CmdCfgs :
        LET t == cmdh[c].trace
        IN  \A p \in 1 .. Len(t) :
                t[p] = "XFER_LEN" /\ inp[p] # 2 =>
                    /\ Len(t) <= p + 2
                    /\ cmd[c].state # "EXTRA_BYTES"
                    /\ \A q \in 1 .. Len(t) : t[q] # "EXTRA_BYTES"
                    /\ Len(t) = p + 2 =>
                          /\ cmd[c].pc = "returned"
                          /\ cmd[c].ret = 2
                          /\ Last(cmd[c].stderr) =
                                 <<"Unexpected transfer address length",
                                   (inp[p] + 65536 - 2) % 65536>>
                    /\ Len(t) < p + 2 /\ cmd[c].pc = "returned" =>
                          cmd[c].ret = 0

\* C5 witness: a transfer-address record with length byte 255 was read to
\* its second address byte and process_file returned 2.
C5_Witness ==
    \E c \in CmdCfgs :
        /\ Len(inp) >= 4
        /\ cmdh[c].trace[Len(inp) - 2] = "XFER_LEN"
        /\ inp[Len(inp) - 2] = 255
        /\ cmd[c].pc = "returned"
        /\ cmd[c].ret = 2

---------------------------------------------------------------------------
(* Properties of edtasmcvt.                                                *)

\* The run with the given options: -f, -c, and line numbers shown (no -s).
EdtRunOf(f, c, n) == [show_hdr |-> f, cvt_newerfmt |-> c, Show_Linenums |-> n]

\* The EDTASM format of the specification, read off the input alone: the
\* index of the first 0x0D of s at or after index i, 0 if there is none.
RECURSIVE FormatEol(_, _)
FormatEol(s, i) ==
    IF i > Len(s) THEN 0
    ELSE IF s[i] = 13 THEN i
    ELSE FormatEol(s, i + 1)

\* The EDTASM format of the specification, read off the input alone.  For s
\* from index i on: ok, whether it is N >= 0 line records (5 bytes in
\* 0xB0..0xB9, a separator 0x20 or 0x09, text bytes other than 0x0D, 0x0D)
\* and a final 0x1A; n, the number N of records; text, the text claimed for
\* them: per record the 5 digits, the separator, the text bytes, a newline.
RECURSIVE FormatLines(_, _)
FormatLines(s, i) ==
    LET bad == [ok |-> FALSE, n |-> 0, text |-> <<>>]
    IN  IF i > Len(s) THEN bad
        ELSE IF s[i] = 26 THEN [ok |-> i = Len(s), n |-> 0, text |-> <<>>]
        ELSE IF /\ i + 5 <= Len(s)
                /\ \A k \in 0 .. 4 : s[i + k] \in 176 .. 185
                /\ s[i + 5] \in {32, 9}
        THEN LET j == FormatEol(s, i + 6)
             IN  IF j = 0 THEN bad
                 ELSE LET rest == FormatLines(s, j + 1)
                      IN  [ok |-> rest.ok,
                           n  |-> rest.n + 1,
                           text |-> [k \in 1 .. 5 |-> s[i + k - 1] - 128]
                                    \o SubSeq(s, i + 5, j - 1)
                                    \o <<10>> \o rest.text]
        ELSE bad

\* The index of the first line record of s: after the 7-byte header if s
\* starts with 0xD3, else 1.
FormatBodyStart(s) == IF s # <<>> /\ s[1] = 211 THEN 8 ELSE 1

\* s is a well-formed file: an optional header, line records, 0x1A.
FormatWellFormed(s) ==
    /\ s # <<>>
    /\ s[1] = 211 => Len(s) >= 7
    /\ FormatLines(s, FormatBodyStart(s)).ok

\* The input positions at which run c took a byte as the first byte of a
\* line number.
LineStarts(c) ==
    LET t == edth[c].trace
    IN  { p \in 1 .. Len(t) :
            /\ t[p] \in {"ES_HDR", "ES_LINENUM"}
            /\ inp[p] \in 176 .. 185
            /\ p > 1 => t[p - 1] \in {"ES_FNAME", "ES_LINETXT"} }

\* The k-th bytes (k in ks) of the output run c wrote for each line record,
\* as indices into its outfile.
LineOutIdx(c, ks) == { edth[c].outpos[p] + k : p \in LineStarts(c), k \in ks }

\* q without its elements at the indices in R.
DropAt(q, R) ==
    LET F[i \in 0 .. Len(q)] ==
            IF i = 0 THEN <<>>
            ELSE IF i \in R THEN F[i - 1] ELSE Append(F[i - 1], q[i])
    IN  F[Len(q)]

\* C2: with default options, for every input made of 0xD3, 6 filename
\* bytes, N >= 0 line records and a final 0x1A, process_file returns 0 and
\* the output is, for each record in order, the 5 digits (line-number byte
\* AND 0x7F), the original separator, the text bytes unchanged and one
\* newline; nothing is output for the header.
C2_DefaultConversion ==
    LET r == edt[EdtRunOf(0, 0, 1)]
    IN  Len(inp) >= 7 /\ inp[1] = 211 /\ FormatLines(inp, 8).ok =>
            /\ r.pc = "returned"
            /\ r.ret = 0
            /\ r.outfile = FormatLines(inp, 8).text

\* C2 witness: a header, two line records (one with a space, one with a tab
\* separator; one with text) and the final 0x1A have been converted.
C2_Witness ==
    /\ Len(inp) >= 7 /\ inp[1] = 211
    /\ FormatLines(inp, 8).ok
    /\ FormatLines(inp, 8).n = 2
    /\ \E p, q \in LineStarts(EdtRunOf(0, 0, 1)) :
           inp[p + 5] = 32 /\ inp[q + 5] = 9
    /\ Len(edt[EdtRunOf(0, 0, 1)].outfile) > 14
    /\ edt[EdtRunOf(0, 0, 1)].ret = 0

C7_StripRemovesSixBytesPerLine ==
    \A f \in {0, 1}, c \in {0, 1} :
        LET d == EdtRunOf(f, c, 1)
            s == EdtRunOf(f, c, 0)
        IN  /\ edt[s].outfile = DropAt(edt[d].outfile, LineOutIdx(d, 1 .. 6))
            /\ edt[s].pc = edt[d].pc
            /\ edt[s].ret = edt[d].ret

\* C7 witness: a well-formed file of two line records with text has been
\* converted with and without -s, and 12 bytes were stripped.
C7_Witness ==
    /\ FormatWellFormed(inp)
    /\ FormatLines(inp, FormatBodyStart(inp)).n = 2
    /\ edt[EdtRunOf(0, 0, 0)].ret = 0
    /\ edt[EdtRunOf(0, 0, 0)].pc = "returned"
    /\ Len(edt[EdtRunOf(0, 0, 0)].outfile) >= 3
    /\ Len(edt[EdtRunOf(0, 0, 1)].outfile)
           = Len(edt[EdtRunOf(0, 0, 0)].outfile) + 12

\* C8: with line numbers shown, the output with -c equals the output
\* without -c except that every separator byte 0x20 directly following a
\* line number is output as 0x09 (a tab separator stays a tab; a space or
\* tab inside the line text is not changed); with -s the output with -c is
\* identical to the output without -c.
C8_ConvertRewritesSeparatorOnly ==
    \A f \in {0, 1} :
        LET a == EdtRunOf(f, 0, 1)
            b == EdtRunOf(f, 1, 1)
            sep == LineOutIdx(a, {6})
        IN  /\ edt[b].outfile =
                   [i \in 1 .. Len(edt[a].outfile) |->
                        IF i \in sep /\ edt[a].outfile[i] = 32
                        THEN 9 ELSE edt[a].outfile[i]]
            /\ edt[EdtRunOf(f, 1, 0)].outfile = edt[EdtRunOf(f, 0, 0)].outfile

\* C8 witness: a well-formed file with a space-separated line whose text
\* holds a space has been converted with and without -c.
C8_Witness ==
    /\ FormatWellFormed(inp)
    /\ edt[EdtRunOf(0, 1, 1)].pc = "returned"
    /\ edt[EdtRunOf(0, 1, 1)].ret = 0
    /\ \E p \in LineStarts(EdtRunOf(0, 0, 1)) :
           /\ inp[p + 5] = 32
           /\ inp[p + 6] = 32
           /\ edt[EdtRunOf(0, 1, 1)].outfile[edth[EdtRunOf(0, 0, 1)].outpos[p] + 6] = 9
           /\ edt[EdtRunOf(0, 1, 1)].outfile[edth[EdtRunOf(0, 0, 1)].outpos[p] + 7] = 32
    /\ \E p \in LineStarts(EdtRunOf(0, 0, 1)) : inp[p + 5] = 9

\* C9: for an input that starts with 0xD3 and at least 6 more bytes, the
\* output with -f is "FILENAME: ", the 6 filename bytes unchanged, two
\* newlines, then exactly the output produced without -f; for an input
\* without 0xD3 header -f changes nothing in the output; the exit status is
\* the same with and without -f.
C9_HeaderDisplay ==
    \A c \in {0, 1}, n \in {0, 1} :
        LET a == edt[EdtRunOf(0, c, n)]
            b == edt[EdtRunOf(1, c, n)]
        IN  /\ a.pc = b.pc
            /\ a.ret = b.ret
            /\ Len(inp) >= 7 /\ inp[1] = 211 =>
                   b.outfile = <<70, 73, 76, 69, 78, 65, 77, 69, 58, 32>>
                               \o SubSeq(inp, 2, 7) \o <<10, 10>> \o a.outfile
            /\ inp # <<>> /\ inp[1] # 211 => b.outfile = a.outfile

\* C9 witness: a file with a header whose filename ends in a padding space
\* and one line record has been converted with and without -f.
C9_Witness ==
    /\ FormatWellFormed(inp)
    /\ inp[1] = 211
    /\ inp[7] = 32
    /\ FormatLines(inp, 8).n >= 1
    /\ edt[EdtRunOf(1, 0, 1)].pc = "returned"
    /\ edt[EdtRunOf(1, 0, 1)].ret = 0
    /\ Len(edt[EdtRunOf(1, 0, 1)].outfile) > 18

\* The bytes at which the specification has a format error: input position
\* p of run c is the first byte of the stream and is neither 0xD3 nor a
\* line-number byte, or was read in the LINE_NUMBER state and is neither a
\* line-number byte nor 0x1A, or is the first byte read after a complete
\* 5-byte line number and is neither 0x20 nor 0x09.
FormatErrorAt(c, p) ==
    LET t == edth[c].trace
    IN  \/ p = 1 /\ inp[p] \notin (176 .. 185) \cup {211}
        \/ p > 1 /\ t[p] = "ES_LINENUM" /\ inp[p] \notin (176 .. 185) \cup {26}
        \/ /\ p > 5
           /\ t[p] = "ES_LINETXT"
           /\ t[p - 1] # "ES_LINETXT"
           /\ inp[p] \notin {32, 9}

\* C10: process_file returns 2, consuming no further input and emitting no
\* further output, in exactly the three cases of FormatErrorAt; no other
\* input byte in any state yields status 2.
C10_FormatErrors ==
    \A c \in EdtCfgs :
        LET t == edth[c].trace
        IN  /\ \A p \in 1 .. Len(t) :
                   FormatErrorAt(c, p) =>
                       /\ edt[c].pc = "returned"
                       /\ edt[c].ret = 2
                       /\ Len(t) = p
                       /\ Len(edt[c].outfile) = edth[c].outpos[p]
            /\ edt[c].pc = "returned" /\ edt[c].ret = 2 =>
                   /\ t # <<>>
                   /\ FormatErrorAt(c, Len(t))
            /\ edt[c].pc = "returned" => edt[c].ret \in {0, 2}

\* C10 witness: after a header and a complete line the separator of the
\* second line is a bad byte; with -f the run returned 2 with the output of
\* the header and the first line written.
C10_Witness ==
    /\ Len(inp) > 20
    /\ inp[1] = 211
    /\ edth[EdtRunOf(1, 0, 1)].trace[Len(inp)] = "ES_LINETXT"
    /\ edth[EdtRunOf(1, 0, 1)].trace[Len(inp) - 1] = "ES_LINENUM"
    /\ edt[EdtRunOf(1, 0, 1)].pc = "returned"
    /\ edt[EdtRunOf(1, 0, 1)].ret = 2
    /\ Len(edt[EdtRunOf(1, 0, 1)].outfile) > 30


---------------------------------------------------------------------------
(* Further properties of stripcmd.                                         *)

\* The state after the byte at index p of the input was processed, in the
\* run c: the state in which the next byte was read or, for the last byte
\* read, the current state.
CmdStateAfter(c, p) ==
    IF p < Len(cmdh[c].trace) THEN cmdh[c].trace[p + 1] ELSE cmd[c].state

\* C11: a byte read in CMD_HDR moves to LOADBLK_LEN for 0x01, XFER_LEN for
\* 0x02, FNAMEREC_LEN for 0x05 and COMMREC_LEN for 0x1F; every other value
\* 0..255 makes process_file return 2 at that byte ("Unexpected header
\* byte"), and no further byte is read.
C11_RecordTypeDispatch ==
    \A c \in CmdCfgs :
        LET t == cmdh[c].trace
        IN  \A p \in 1 .. Len(t) :
                t[p] = "CMD_HDR" =>
                    CASE inp[p] = 1  -> CmdStateAfter(c, p) = "LOADBLK_LEN"
                      [] inp[p] = 2  -> CmdStateAfter(c, p) = "XFER_LEN"
                      [] inp[p] = 5  -> CmdStateAfter(c, p) = "FNAMEREC_LEN"
                      [] inp[p] = 31 -> CmdStateAfter(c, p) = "COMMREC_LEN"
                      [] OTHER ->
                           /\ Len(t) = p
                           /\ Len(inp) = p
                           /\ cmd[c].pc = "returned"
                           /\ cmd[c].ret = 2
                           /\ Last(cmd[c].stderr) =
                                  <<"Unexpected header byte", inp[p]>>

\* C11 witness: after a complete filename record a byte that is no record
\* type was read in CMD_HDR and process_file returned 2 at it.
C11_Witness ==
    /\ Len(inp) >= 4
    /\ inp[1] = 5
    /\ inp[Len(inp)] \notin {1, 2, 5, 31}
    /\ \A c \in CmdCfgs :
          /\ cmdh[c].trace[Len(inp)] = "CMD_HDR"
          /\ cmd[c].pc = "returned"
          /\ cmd[c].ret = 2

\* The CMD format of the specification, read off the input alone: the
\* number of bytes of s that follow the second address byte of the
\* transfer-address record (0 if s has no complete one).
FormatTrailing(s) ==
    IF FormatXferEnd(s, 1) = 0 THEN 0 ELSE Len(s) - FormatXferEnd(s, 1)

\* C12: whenever the input is exhausted without a format error, in whatever
\* state, process_file returns 0 and, at quiet level < 2, prints "CMD file
\* looks good!" as its last line, preceded by "Found N extraneous bytes at
\* end of file." if and only if N > 0, where N is the number of input bytes
\* that follow the second address byte of the transfer-address record.
C12_FinalReport ==
    \A c \in CmdCfgs :
        cmd[c].pc = "returned" /\ cmd[c].stderr = <<>> =>
            /\ cmd[c].ret = 0
            /\ c.Quiet < 2 =>
                  LET out == cmd[c].stdout
                      n == FormatTrailing(inp)
                  IN  /\ out # <<>>
                      /\ Last(out) = <<"CMD file looks good!">>
                      /\ n > 0 =>
                            /\ Len(out) >= 2
                            /\ out[Len(out) - 1] = <<"Found extraneous bytes", n>>
                      /\ n = 0 /\ Len(out) >= 2 =>
                            out[Len(out) - 1][1] # "Found extraneous bytes"

\* The kinds of the lines of a standard output, in order.
LineKinds(out) == [k \in 1 .. Len(out) |-> out[k][1]]

\* The lines of the final summary.
SummaryKinds == {"Found extraneous bytes", "CMD file looks good!"}

IsRecordKind(k) == k \notin SummaryKinds

\* The CMD format of the specification, read off the input alone: the kinds
\* of the report lines due for the records of s from index i on, one per
\* record whose last header/content byte is in s (second address byte of a
\* load block or transfer address, last byte of a name or comment), in the
\* order of the records.  Nothing follows a transfer-address record or a
\* byte that is no record type.
RECURSIVE FormatReportKinds(_, _)
FormatReportKinds(s, i) ==
    IF i > Len(s) THEN <<>>
    ELSE CASE s[i] = 1 ->
                IF i + 3 > Len(s) THEN <<>>
                ELSE <<"Load address">> \o
                     FormatReportKinds(s, i + 4 + FormatBlkLen(s[i + 1]))
           [] s[i] = 2 ->
                IF i + 3 > Len(s) THEN <<>> ELSE <<"Transfer address">>
           [] s[i] \in {5, 31} ->
                IF i + 1 > Len(s) \/ i + 1 + s[i + 1] > Len(s) THEN <<>>
                ELSE <<IF s[i] = 5 THEN "Filename" ELSE "Comment">> \o
                     FormatReportKinds(s, i + 2 + s[i + 1])
           [] OTHER -> <<>>

\* C13: at quiet level 0 exactly one report line is printed per completed
\* record, at the moment its last header/content byte is read, so that
\* after every input byte the report lines printed so far are those of the
\* records completed so far, in the order of the records in the input; all
\* of them precede the final summary lines, and a load block is reported
\* before its payload bytes are consumed.
C13_ReportOrdering ==
    \A c \in CmdCfgs :
        c.Quiet = 0 /\ cmd[c].pc \in {"loop", "returned"} =>
            LET kinds == LineKinds(cmd[c].stdout)
            IN  /\ SelectSeq(kinds, IsRecordKind) = FormatReportKinds(inp, 1)
                /\ cmd[c].pc = "loop" => \A k \in 1 .. Len(kinds) :
                                             IsRecordKind(kinds[k])
                /\ \A j, k \in 1 .. Len(kinds) :
                       j < k /\ ~IsRecordKind(kinds[j]) => ~IsRecordKind(kinds[k])

IsSummaryLine(l) == l[1] \in SummaryKinds

IsRecordLine(l) == l[1] \notin SummaryKinds

\* The input positions at which the run c completed a record: the second
\* address byte of a load block or transfer address, the byte after which
\* a name or comment was complete.
CmdRecordEnds(c) ==
    {p \in 1 .. Len(cmdh[c].trace) :
        \/ cmdh[c].trace[p] \in {"LOADBLK_ADDRHI", "XFER_ADDRHI"}
        \/ /\ cmdh[c].trace[p] \in {"FNAMEREC_NAME", "COMMREC_STRING"}
           /\ CmdStateAfter(c, p) = "CMD_HDR"}

\* The summary lines due in the run c: none before the input is exhausted
\* or after a format error.
CmdSummaryDue(c) ==
    IF cmd[c].pc = "returned" /\ cmd[c].ret = 0
    THEN (IF cmd[c].extra_bytes # 0
          THEN <<<<"Found extraneous bytes", cmd[c].extra_bytes>>>>
          ELSE <<>>) \o <<<<"CMD file looks good!">>>>
    ELSE <<>>

\* C14: for every input the sequence of states, the bytes copied to the
\* output file and the return value of process_file are the same at all
\* quiet levels; level 0 prints the per-record lines and the summary lines,
\* level 1 prints only the trailing-count line (if any) and "CMD file looks
\* good!", and level 2 or more prints nothing to standard output.
C14_Quietness ==
    \A c \in CmdCfgs :
        LET c0 == [c EXCEPT !.Quiet = 0]
        IN  /\ cmdh[c].trace = cmdh[c0].trace
            /\ cmd[c].state = cmd[c0].state
            /\ cmd[c].outfile = cmd[c0].outfile
            /\ cmd[c].pc = cmd[c0].pc
            /\ cmd[c].ret = cmd[c0].ret
            /\ cmd[c].stderr = cmd[c0].stderr
            /\ c.Quiet = 0 =>
                  /\ Len(SelectSeq(cmd[c].stdout, IsRecordLine)) =
                         Cardinality(CmdRecordEnds(c))
                  /\ SelectSeq(cmd[c].stdout, IsSummaryLine) = CmdSummaryDue(c)
            /\ c.Quiet = 1 => cmd[c].stdout = CmdSummaryDue(c)
            /\ c.Quiet >= 2 => cmd[c].stdout = <<>>

\* C14 witness: an input with two records and a trailing byte was read to
\* its end: level 0 has printed four lines, level 1 two, level 2 none.
C14_Witness ==
    \A f \in BOOLEAN :
        /\ cmd[[Quiet |-> 0, OutputFile |-> f]].pc = "returned"
        /\ cmd[[Quiet |-> 0, OutputFile |-> f]].ret = 0
        /\ Len(cmd[[Quiet |-> 0, OutputFile |-> f]].stdout) = 4
        /\ Len(cmd[[Quiet |-> 1, OutputFile |-> f]].stdout) = 2
        /\ cmd[[Quiet |-> 2, OutputFile |-> f]].stdout = <<>>

\* C15: process_args uses standard input exactly when the cmd_file operand
\* is omitted or is the one-character string "-"; every other non-empty
\* first operand is opened as the input file, and an open failure is a
\* usage error (return -1, exit 1).
C15_InputSelection ==
    /\ src = "args"
    /\ arg.pc # "process_args"
    /\ ArgGetopt(arg.opts, 1, 0).ret = 0
    /\ Len(arg.operands) <= 2
    => LET ops == arg.operands
       IN  /\ ops = <<>> \/ ops[1] = <<MINUS>> =>
                 arg.InputFile = StdinStream
           /\ ops # <<>> /\ ops[1] \notin {<<>>, <<MINUS>>} =>
                 IF ops[1] \in arg.openable
                 THEN arg.InputFile = FileStream(ops[1])
                 ELSE /\ arg.InputFile # StdinStream
                      /\ arg.ret = -1
                      /\ arg.pc = "exited" => arg.exit = 1

\* C16: EXTRA_BYTES is absorbing: once the second address byte of a
\* transfer-address record with length byte 2 has been read (at index p),
\* every later input byte, whatever its value, is read in EXTRA_BYTES and
\* leaves the state there, increments the trailing-byte count by exactly 1,
\* is not copied, produces no report line and causes no format error.
C16_ExtraBytesAbsorbing ==
    \A c \in CmdCfgs :
        LET t == cmdh[c].trace
        IN  \A p \in 3 .. Len(t) :
                t[p] = "XFER_ADDRHI" /\ t[p - 2] = "XFER_LEN" /\ inp[p - 2] = 2 =>
                    /\ \A q \in p + 1 .. Len(t) : t[q] = "EXTRA_BYTES"
                    /\ cmd[c].state = "EXTRA_BYTES"
                    /\ cmd[c].extra_bytes = Len(inp) - p
                    /\ c.OutputFile => cmd[c].outfile = SubSeq(inp, 1, p)
                    /\ c.Quiet = 0 =>
                          LET lines == SelectSeq(cmd[c].stdout, IsRecordLine)
                          IN  /\ Len(lines) = Cardinality(
                                     {q \in CmdRecordEnds(c) : q <= p})
                              /\ Last(lines) = <<"Transfer address",
                                                 inp[p - 1] + 256 * inp[p]>>
                    /\ cmd[c].stderr = <<>>
                    /\ cmd[c].pc \in {"loop", "returned"}
                    /\ cmd[c].pc = "returned" => cmd[c].ret = 0

\* C16 witness: after a transfer-address record the bytes 01 02 05 1F 00
\* were read, all of them in EXTRA_BYTES.
C16_Witness ==
    /\ Len(inp) = 9
    /\ SubSeq(inp, 1, 2) = <<2, 2>>
    /\ SubSeq(inp, 5, 9) = <<1, 2, 5, 31, 0>>
    /\ \A c \in CmdCfgs :
          /\ cmd[c].state = "EXTRA_BYTES"
          /\ cmd[c].extra_bytes = 5
          /\ cmd[c].pc = "loop"

\* C17: in every reachable state the number of bytes accumulated for the
\* current filename (fname_idx) or comment (comment_idx) is at most 255,
\* and no store into fname[] or comment[] is outside the buffer.
C17_BufferBound ==
    \A c \in CmdCfgs :
        /\ cmd[c].fname_idx <= 255
        /\ cmd[c].comment_idx <= 255
        /\ ~cmd[c].ub

\* C20: with an output file, after every loop iteration and after every
\* return, the bytes written so far are a prefix of the input and (number
\* of bytes written) + (trailing-byte count) = (number of bytes read); a
\* byte that triggers a format error has been written when process_file
\* returns 2.
C20_CopyInvariant ==
    \A c \in CmdCfgs :
        c.OutputFile /\ cmd[c].pc \in {"loop", "returned"} =>
            /\ Len(cmd[c].outfile) <= Len(inp)
            /\ cmd[c].outfile = SubSeq(inp, 1, Len(cmd[c].outfile))
            /\ Len(cmd[c].outfile) + cmd[c].extra_bytes = Len(inp)
            /\ cmd[c].pc = "returned" /\ cmd[c].ret = 2 =>
                  /\ cmd[c].outfile = inp
                  /\ Last(cmd[c].outfile) = Last(inp)

\* C20 witness: process_file has returned 2 at the second address byte of
\* a transfer-address record with a bad length, after a complete record,
\* and that byte is the last byte of the output file.
C20_Witness ==
    \E c \in CmdCfgs :
        /\ c.OutputFile
        /\ cmd[c].pc = "returned"
        /\ cmd[c].ret = 2
        /\ Len(inp) >= 7
        /\ cmdh[c].trace[Len(inp)] = "XFER_ADDRHI"
        /\ cmd[c].outfile = inp

---------------------------------------------------------------------------
(* Further properties of edtasmcvt, and of both programs.                  *)

\* C18: if the input ends without a format error having been detected,
\* process_file of edtasmcvt returns 0 whatever the current state is, and
\* the output produced so far is left as is: the step in which fgetc()
\* returns EOF writes nothing.
C18_InputExhaustion ==
    [][ src = "edt" /\ inp' = inp =>
          \A c \in EdtCfgs :
              edt[c].pc = "loop" =>
                  /\ edt'[c].pc = "returned"
                  /\ edt'[c].ret = 0
                  /\ edt'[c].outfile = edt[c].outfile
                  /\ edt'[c].stderr = edt[c].stderr
                  /\ edt'[c].stderr = <<>> ]_vars

\* C18 witness: the input ended inside the text of a line, with no 0x0D:
\* process_file has returned 0 and the output does not end in a newline.
C18_Witness ==
    /\ src = "edt"
    /\ Len(inp) >= 8
    /\ Last(inp) = 65
    /\ \A c \in EdtCfgs :
          /\ edt[c].pc = "returned"
          /\ edt[c].ret = 0
          /\ edt[c].state = "ES_LINETXT"
          /\ edt[c].outfile # <<>>
          /\ Last(edt[c].outfile) = 65

===========================================================================
